---- MODULE Spec2Model ----
(***************************************************************************)
(* The SSE bridge of examples/ui/backend/services: event_stream            *)
(* (agent.py), AgentMediator (mediator.py) and MarketingAdapter            *)
(* (marketing_adapter.py), for one request.                                *)
(*                                                                         *)
(* Python values are modelled as follows.  A dict is a function whose      *)
(* domain is its set of keys (dict.get is Get).  A JSON value whose type   *)
(* the code depends on is tagged: JList(s), JNum(n), JNull.  The result of *)
(* a call that may raise is Ok(v) or Raise(cls, msg).  None is NoneVal.    *)
(***************************************************************************)
EXTENDS Integers, Sequences, FiniteSets, TLC

\* ---------------------------------------------------------------- bounds
\* Longest customer list the backend returns (one more than the display cut).
MaxCustomers == 21
\* Most items the agent runtime's run_stream produces in one request.
MaxUpstream == 2

\* Calls of get_or_create_agent made by other code of the process
MaxAgentCalls == 1

\* Calls of query, get_filters, get_summary and _wrap_event made on their own
MaxCalls == 2

\* Calls of close made on one adapter
MaxCloses == 2

\* ------------------------------------------------------ program constants
\* mediator.py:85  result.get("customers", [])[:20]
DisplayLimit == 20
\* mediator.py:59  self.adapter.query(query, limit=100)
QueryLimit == 100

\* ---------------------------------------------------------------- values
NoneVal == "<None>"

Ok(v) == [ok |-> TRUE, value |-> v]

Raise(cls, msg) == [ok |-> FALSE, exc |-> [cls |-> cls, msg |-> msg]]

\* dict.get(k, default)
Get(d, k, default) == IF k \in DOMAIN d THEN d[k] ELSE default

JList(s) == [t |-> "list", v |-> s]

JNum(n) == [t |-> "num", v |-> n]

JNull == [t |-> "null"]

JDict(d) == [t |-> "dict", v |-> d]

\* seq[:n]
Take(s, n) == SubSeq(s, 1, IF Len(s) < n THEN Len(s) ELSE n)

\* ------------------------------------------------ agent.py: configuration
BRIDGE_MODES == {"bridge", "mediator", "bridge-mediator"}

\* The values of CHAT_RUNTIME (already lower-cased by mediator_enabled).
ChatRuntimes == {"panda-agent", "mediator"}

\* The values of MARKETING_MODE (already lower-cased by __init__).
MarketingModes == {"local", "http", "grpc"}

\* The conversation_id argument of event_stream.
ConversationIds == {NoneVal, "", "conv-1"}

\* ---------------------------------------- marketing_adapter.py: presets
preset_filters ==
    { "VIP customers only",
      "High value customers (Average Order > $300)",
      "Active customers in last 30 days",
      "Frequent buyers (10+ purchases)",
      "Churn risk customers (inactive 90+ days)" }

\* The query argument of event_stream: the five presets and texts that are
\* close to a preset without being one.
Queries == preset_filters \cup {"vip customers only", "Show me HORECA customers"}

IsPresetIgnoringCase(query) == query \in preset_filters \cup {"vip customers only"}

_is_preset_filter(query) == query \in preset_filters

\* ------------------------------------------------------------ exceptions
\* Every class raised below derives from Exception, which is what the three
\* handlers (`except Exception`) catch.
ExceptionClasses ==
    { "ValueError", "RuntimeError", "TypeError", "AttributeError",
      "ConnectError", "HTTPStatusError", "JSONDecodeError", "FilterError",
      "AgentError" }

IsException(exc) == exc.cls \in ExceptionClasses

\* ------------------------------------- the analytics collaborator's data
\* A customer record as a dict; lifetime_value may be missing or null, and
\* a dataclass converted by asdict may hold a value json cannot serialise.
Customer(i, ltv) == [id |-> i, lifetime_value |-> ltv]

LtvValues == {JNum(100), JNum(300), JNull}

ShortCustomerLists ==
    {<<>>}
    \cup { <<Customer(1, a)>> : a \in LtvValues }
    \cup { <<Customer(1, a), Customer(2, b)>> : a \in LtvValues, b \in LtvValues }
    \cup { <<[id |-> 1]>>, <<Customer(1, JNum(100)), [id |-> 2]>> }

\* Lists around the display cut; customer i is worth i.
LongCustomerLists ==
    { [i \in 1..n |-> Customer(i, JNum(i))] : n \in (DisplayLimit - 1)..MaxCustomers }

UnserialisableCustomerLists ==
    { <<[id |-> 1, lifetime_value |-> JNum(100), last_order |-> [t |-> "datetime"]]>> }

CustomerLists == ShortCustomerLists \cup LongCustomerLists

\* The counts a backend reports; a count need not be the length of the
\* customer list it comes with (the list is cut to the request's limit).
CountValues == {0, 1, 2, MaxCustomers}

Ids(n) == [i \in 1..n |-> i]

\* engine_used / tokens_used / execution_time as the engines report them.
Metadatas ==
    { [engine_used |-> "sql", tokens_used |-> 0, execution_time |-> 1],
      [engine_used |-> "llm", tokens_used |-> 7, execution_time |-> 2] }

\* What service.filter_customers(request) does: raises, or returns a
\* response object (attributes as a record; metadata may be None).
LocalResponses ==
    { [success |-> s, count |-> n, customer_ids |-> Ids(n), customers |-> cs,
       sql |-> "SELECT 1", code |-> NoneVal, metadata |-> JDict(m)] :
         s \in BOOLEAN, n \in CountValues, cs \in CustomerLists, m \in Metadatas }
    \cup { [success |-> TRUE, count |-> 1, customer_ids |-> Ids(1), customers |-> cs,
            sql |-> NoneVal, code |-> "df.query()", metadata |-> JDict(m)] :
              cs \in UnserialisableCustomerLists, m \in Metadatas }
    \cup { [success |-> TRUE, count |-> 0, customer_ids |-> <<>>, customers |-> <<>>,
            sql |-> NoneVal, code |-> NoneVal, metadata |-> JNull] }

LocalOutcomes ==
    { Raise("RuntimeError", "engine unavailable") } \cup { Ok(r) : r \in LocalResponses }

\* The JSON objects a 2xx reply of POST /marketing/filter may carry: the
\* service's full records, records with fields left out or null, and
\* failure records with and without an error string.
HttpFullObjects ==
    { [success |-> TRUE, count |-> n, customer_ids |-> Ids(n), customers |-> JList(cs),
       engine_used |-> m.engine_used, tokens_used |-> m.tokens_used,
       execution_time |-> m.execution_time] :
         n \in CountValues, cs \in CustomerLists, m \in Metadatas }

HttpPartialObjects ==
    { [success |-> TRUE, count |-> n, customers |-> JNull] : n \in CountValues }
    \cup { [success |-> TRUE, count |-> n] : n \in CountValues }
    \cup { [success |-> TRUE, customers |-> JList(cs)] : cs \in ShortCustomerLists }

HttpFailureObjects ==
    { [success |-> FALSE, error |-> "boom"],
      [success |-> FALSE],
      [error |-> "boom"],
      [status |-> "ok"],
      [success |-> FALSE, error |-> "boom", count |-> 0, customers |-> JList(<<>>)] }

HttpObjects == HttpFullObjects \cup HttpPartialObjects \cup HttpFailureObjects

\* What the HTTP client does with the POST: no connection, or a reply with
\* a status code and a body that is not JSON, JSON but no object, or an object.
HttpReplies ==
    { [connected |-> FALSE, status_code |-> 0, body |-> JNull] }
    \cup { [connected |-> TRUE, status_code |-> c, body |-> [t |-> "invalid"]] : c \in {404, 500} }
    \cup { [connected |-> TRUE, status_code |-> 200, body |-> b] :
             b \in {[t |-> "invalid"], JList(<<>>), JNull} }
    \cup { [connected |-> TRUE, status_code |-> 200, body |-> JDict(o)] : o \in HttpObjects }

\* ------------------------------------------- marketing_adapter.py: query
\* The record both handlers return for a caught exception.
FailureRecord(exc, query_text) ==
    [success |-> FALSE, error |-> exc.msg, query |-> query_text]

\* The FilterRequest of _query_local.
LocalRequest(query_text, limit) ==
    [ filter_label |-> IF _is_preset_filter(query_text) THEN query_text ELSE NoneVal,
      custom_query |-> IF ~_is_preset_filter(query_text) THEN query_text ELSE NoneVal,
      format |-> "full",
      limit |-> limit ]

\* The JSON payload of _query_http.
HttpPayload(query_text, limit) ==
    LET is_preset == _is_preset_filter(query_text)
        payload == [format |-> "full", limit |-> limit]
    IN  IF is_preset
        THEN ("filter" :> query_text) @@ payload
        ELSE ("query" :> query_text) @@ payload

\* x or ""
OrEmpty(x) == IF x = NoneVal \/ x = "" THEN "" ELSE x

\* The try block of _query_local after the request is built.
LocalTry(query_text, outcome) ==
    IF ~outcome.ok THEN outcome
    ELSE LET response == outcome.value IN
         IF response.metadata.t # "dict"
         THEN Raise("AttributeError", "'NoneType' object has no attribute 'get'")
         ELSE Ok([ success |-> response.success,
                   query |-> query_text,
                   engine_used |-> Get(response.metadata.v, "engine_used", "unknown"),
                   tokens_used |-> Get(response.metadata.v, "tokens_used", 0),
                   execution_time |-> Get(response.metadata.v, "execution_time", 0),
                   count |-> response.count,
                   customer_ids |-> response.customer_ids,
                   customers |-> JList(response.customers),
                   sql |-> OrEmpty(response.sql),
                   code |-> OrEmpty(response.code),
                   metadata |-> response.metadata ])

\* The try block of _query_http after the payload is built.
HttpTry(query_text, reply) ==
    IF ~reply.connected
    THEN Raise("ConnectError", "All connection attempts failed")
    ELSE IF ~(reply.status_code \in 200..299)
    THEN Raise("HTTPStatusError", "error response for url /marketing/filter")
    ELSE IF reply.body.t = "invalid"
    THEN Raise("JSONDecodeError", "Expecting value: line 1 column 1 (char 0)")
    ELSE IF reply.body.t # "dict"
    THEN Raise("TypeError", "object does not support item assignment")
    ELSE Ok(("query" :> query_text) @@ reply.body.v)

_query_local(query_text, outcome) ==
    LET r == LocalTry(query_text, outcome) IN
    IF r.ok THEN r
    ELSE IF IsException(r.exc) THEN Ok(FailureRecord(r.exc, query_text))
    ELSE r

QueryHttpUncaught(query_text, reply) == HttpTry(query_text, reply)

_query_http(query_text, reply) ==
    LET r == HttpTry(query_text, reply) IN
    IF r.ok THEN r
    ELSE IF IsException(r.exc) THEN Ok(FailureRecord(r.exc, query_text))
    ELSE r

\* MarketingAdapter.query: what it returns (or raises) given what the
\* backend of its mode did.
AdapterQuery(mode, query_text, backend) ==
    IF mode = "local" THEN _query_local(query_text, backend)
    ELSE _query_http(query_text, backend)

\* The request MarketingAdapter.query sends to the backend of its mode.
AdapterRequest(mode, query_text, limit) ==
    IF mode = "local" THEN LocalRequest(query_text, limit)
    ELSE HttpPayload(query_text, limit)

\* ------------------------------------------------------------ mediator.py
STREAM_EVENT_TYPE == "tool_end"

\* _utc_timestamp() at clock reading c
_utc_timestamp(c) == ToString(c)

\* str(uuid.uuid4()): the n-th identifier generated
uuid4(n) == "uuid-" \o ToString(n)

\* _wrap_event setting tool_name from the type whenever the type is not
\* one of the two it treats apart, supplied tool_name or not
WrapEventOverwritingToolName(data, c, n) ==
    LET timestamp == _utc_timestamp(c)
        event_id == uuid4(n + 1)
        payload == data @@ [timestamp |-> timestamp, id |-> event_id]
        named == IF Get(payload, "type", NoneVal) \notin {"user_send_message", "error"}
                 THEN [k \in DOMAIN payload \cup {"tool_name"} |->
                          IF k = "tool_name" THEN Get(payload, "type", "bridge_event")
                          ELSE payload[k]]
                 ELSE payload
    IN  [event_type |-> STREAM_EVENT_TYPE, timestamp |-> timestamp, data |-> named]

\* AgentMediator._wrap_event(data) with the clock at c and n identifiers
\* generated so far.
_wrap_event(data, c, n) ==
    LET timestamp == _utc_timestamp(c)
        event_id == uuid4(n + 1)
        payload == data @@ [timestamp |-> timestamp, id |-> event_id]
        named == IF "tool_name" \notin DOMAIN payload
                    /\ Get(payload, "type", NoneVal) \notin {"user_send_message", "error"}
                 THEN ("tool_name" :> Get(payload, "type", "bridge_event")) @@ payload
                 ELSE payload
    IN  [event_type |-> STREAM_EVENT_TYPE, timestamp |-> timestamp, data |-> named]

\* lines 44-52 with the text stripped of its capitals
EchoDataLowered(query) ==
    [ type |-> "user_send_message",
      input_params |-> [ text |-> IF query = "VIP customers only" THEN "vip customers only" ELSE query,
                         attachments |-> <<>> ] ]

\* lines 44-52: the echo of the user message
EchoData(query) ==
    [type |-> "user_send_message", input_params |-> [text |-> query, attachments |-> <<>>]]

\* lines 63-70: the error event for an unsuccessful result
ResultErrorData(result) ==
    [ type |-> "error",
      tool_name |-> "omt.marketing.error",
      error |-> Get(result, "error", "Unknown error"),
      payload |-> result ]

\* lines 126-133 with the event typed as a summary of what went wrong
ExceptionErrorDataAsSummary(query, exc) ==
    [ type |-> "marketing_summary",
      tool_name |-> "omt.marketing.summary",
      error |-> "Marketing query failed: " \o exc.msg,
      payload |-> [query |-> query] ]

\* lines 126-133: the error event of the except clause
ExceptionErrorData(query, exc) ==
    [ type |-> "error",
      tool_name |-> "omt.marketing.error",
      error |-> "Marketing query failed: " \o exc.msg,
      payload |-> [query |-> query] ]

\* result.get("customers", [])[-20:]
DisplayedCustomersFromEnd(result) ==
    LET customers == Get(result, "customers", JList(<<>>)) IN
    IF customers.t # "list"
    THEN Raise("TypeError", "'NoneType' object is not subscriptable")
    ELSE Ok(SubSeq(customers.v,
                   IF Len(customers.v) > DisplayLimit THEN Len(customers.v) - DisplayLimit + 1 ELSE 1,
                   Len(customers.v)))

\* result.get("customers", [])[:20]
DisplayedCustomers(result) ==
    LET customers == Get(result, "customers", JList(<<>>)) IN
    IF customers.t # "list"
    THEN Raise("TypeError", "'NoneType' object is not subscriptable")
    ELSE Ok(Take(customers.v, DisplayLimit))

\* lines 74-91: the marketing_response event, given the displayed list
ResponseData(query, result, displayed) ==
    [ type |-> "marketing_response",
      tool_name |-> "omt.marketing.filter",
      payload |-> [ query |-> Get(result, "query", query),
                    engine_used |-> Get(result, "engine_used", "unknown"),
                    tokens_used |-> Get(result, "tokens_used", 0),
                    execution_time |-> Get(result, "execution_time", 0),
                    count |-> Get(result, "count", 0),
                    customer_ids |-> Get(result, "customer_ids", <<>>),
                    customers |-> JList(displayed),
                    sql |-> Get(result, "sql", ""),
                    code |-> Get(result, "code", ""),
                    metadata |-> Get(result, "metadata", JDict(<<>>)) ] ]

\* sum(c.get("lifetime_value", 0) for c in customers), left to right from 0
RECURSIVE SumLtv(_, _, _)
SumLtv(customers, i, acc) ==
    IF i > Len(customers) THEN Ok(acc)
    ELSE LET ltv == Get(customers[i], "lifetime_value", JNum(0)) IN
         IF ltv.t # "num"
         THEN Raise("TypeError", "unsupported operand type(s) for +: 'int' and 'NoneType'")
         ELSE SumLtv(customers, i + 1, acc + ltv.v)

\* total_ltv / len(customers) without the guard on an empty list
AverageUnguarded(total_ltv, customers) == [num |-> total_ltv, den |-> Len(customers)]

\* total_ltv / len(customers) if customers else 0, as an exact quotient
Average(total_ltv, customers) ==
    IF Len(customers) > 0
    THEN [num |-> total_ltv, den |-> Len(customers)]
    ELSE [num |-> 0, den |-> 1]

\* lines 99-109: the summary text, as the values it is formatted from
SummaryText(result, total_ltv, avg_ltv) ==
    LET head == [ total_customers |-> Get(result, "count", 0),
                  total_lifetime_value |-> total_ltv,
                  average_lifetime_value |-> avg_ltv,
                  execution_time |-> Get(result, "execution_time", 0),
                  engine_used |-> Get(result, "engine_used", "unknown") ]
    IN  IF Get(result, "tokens_used", 0) > 0
        THEN ("tokens_used" :> Get(result, "tokens_used", 0)) @@ head
        ELSE head

\* lines 111-122: the marketing_summary event
SummaryData(result, total_ltv, avg_ltv) ==
    [ type |-> "marketing_summary",
      tool_name |-> "omt.marketing.summary",
      payload |-> [ text |-> SummaryText(result, total_ltv, avg_ltv),
                    total_customers |-> Get(result, "count", 0),
                    total_lifetime_value |-> total_ltv,
                    average_lifetime_value |-> avg_ltv ] ]

\* lines 95-97 over the displayed customer list
SummaryOfDisplayedList(result) ==
    LET customers == Take(Get(result, "customers", JList(<<>>)).v, DisplayLimit)
        total_ltv == SumLtv(customers, 1, 0)
    IN  IF ~total_ltv.ok THEN total_ltv
        ELSE Ok(SummaryData(result, total_ltv.value, Average(total_ltv.value, customers)))

\* lines 95-97 over the full customer list
SummaryOfFullList(result) ==
    LET customers == Get(result, "customers", JList(<<>>)).v
        total_ltv == SumLtv(customers, 1, 0)
    IN  IF ~total_ltv.ok THEN total_ltv
        ELSE Ok(SummaryData(result, total_ltv.value, Average(total_ltv.value, customers)))

\* What the consumer of an async generator gets from one __anext__.
Item(event) == [t |-> "item", v |-> event]

NoneItem == [t |-> "item", v |-> [none |-> TRUE]]

Stop == [t |-> "stop"]

Raised(exc) == [t |-> "raise", exc |-> exc]

IsNone(event) == "none" \in DOMAIN event

\* lines 56-122 without the handler at lines 124-133
MediatorReraise(query, exc, c, n) == [up |-> Raised(exc), mpc |-> "done"]

\* The except clause of AgentMediator.stream: what the generator does with
\* an exception raised in its try block, and where that leaves it.
MediatorExcept(query, exc, c, n) ==
    IF IsException(exc)
    THEN [up |-> Item(_wrap_event(ExceptionErrorData(query, exc), c, n)), mpc |-> "failed"]
    ELSE [up |-> Raised(exc), mpc |-> "done"]

\* lines 59-91 with result.get("success", True)
AfterQuerySuccessByDefault(query, qres, c, n) ==
    IF ~qres.ok THEN MediatorExcept(query, qres.exc, c, n)
    ELSE LET result == qres.value IN
         IF ~Get(result, "success", TRUE)
         THEN [up |-> Item(_wrap_event(ResultErrorData(result), c, n)), mpc |-> "errored"]
         ELSE LET displayed == DisplayedCustomers(result) IN
              IF ~displayed.ok THEN MediatorExcept(query, displayed.exc, c, n)
              ELSE [ up |-> Item(_wrap_event(ResponseData(query, result, displayed.value), c, n)),
                     mpc |-> "responded" ]

\* lines 59-91, from the return of adapter.query to the next yield
AfterQuery(query, qres, c, n) ==
    IF ~qres.ok THEN MediatorExcept(query, qres.exc, c, n)
    ELSE LET result == qres.value IN
         IF ~Get(result, "success", FALSE)
         THEN [up |-> Item(_wrap_event(ResultErrorData(result), c, n)), mpc |-> "errored"]
         ELSE LET displayed == DisplayedCustomers(result) IN
              IF ~displayed.ok THEN MediatorExcept(query, displayed.exc, c, n)
              ELSE [ up |-> Item(_wrap_event(ResponseData(query, result, displayed.value), c, n)),
                     mpc |-> "responded" ]

\* lines 93-122 with the gate at count >= 0
AfterResponseGateAtZero(query, result, c, n) ==
    IF Get(result, "count", 0) >= 0
    THEN LET summary == SummaryOfFullList(result) IN
         IF ~summary.ok THEN MediatorExcept(query, summary.exc, c, n)
         ELSE [up |-> Item(_wrap_event(summary.value, c, n)), mpc |-> "summarized"]
    ELSE [up |-> Stop, mpc |-> "done"]

\* lines 93-122, from the marketing_response yield to the next yield or the end
AfterResponse(query, result, c, n) ==
    IF Get(result, "count", 0) > 0
    THEN LET summary == SummaryOfFullList(result) IN
         IF ~summary.ok THEN MediatorExcept(query, summary.exc, c, n)
         ELSE [up |-> Item(_wrap_event(summary.value, c, n)), mpc |-> "summarized"]
    ELSE [up |-> Stop, mpc |-> "done"]

\* --------------------------------------------------- agent.py: event_stream
\* json.dumps(obj): the text, or TypeError for a value json cannot encode
\* (a datetime left by asdict, an object held by an agent event).
JsonDumps(obj) ==
    LET data == obj.data
        customers == IF "payload" \in DOMAIN data /\ "customers" \in DOMAIN data.payload
                     THEN data.payload.customers ELSE JNull
    IN  IF \/ "handle" \in DOMAIN data
           \/ /\ customers.t = "list"
              /\ \E i \in 1..Len(customers.v) : "last_order" \in DOMAIN customers.v[i]
        THEN Raise("TypeError", "Object of type datetime is not JSON serializable")
        ELSE Ok([dumps |-> obj])

\* f"<event>{text}</event>"
Frame(text) == [open |-> "<event>", json |-> text, close |-> "</event>"]

\* lines 111-118
ConversationEvent(actual_conversation_id) ==
    [data |-> [ type |-> "conversation_started",
                payload |-> [conversation_id |-> actual_conversation_id],
                timestamp |-> "",
                id |-> NoneVal ]]

\* lines 140-145
ErrorData(exc) == [data |-> [event_type |-> "error", error |-> exc.msg]]

\* utils.event_processing.should_render_event: the filtering policy is the
\* collaborator's; for an event it answers yes, answers no, or raises.
FilterOutcomes == {Ok(TRUE), Ok(FALSE), Raise("FilterError", "cannot classify event")}

\* lines 135-146 without the handler
EventStreamReraise(exc) == [emit |-> <<>>, escaped |-> <<exc>>]

\* lines 135-146: the handler of event_stream
EventStreamExcept(exc) ==
    IF IsException(exc)
    THEN [emit |-> <<Frame(JsonDumps(ErrorData(exc)).value)>>, escaped |-> <<>>]
    ELSE [emit |-> <<>>, escaped |-> <<exc>>]

\* lines 123-146 with `break` for `continue` at line 126
LoopPassBreakOnNone(up, shown) ==
    LET go == [emit |-> <<>>, pc |-> "loop", escaped |-> <<>>, asked |-> <<shown>>]
        handle(exc, asked) ==
            LET h == EventStreamExcept(exc)
            IN  [emit |-> h.emit, pc |-> "done", escaped |-> h.escaped, asked |-> asked]
    IN  IF up.t = "stop" THEN [emit |-> <<>>, pc |-> "done", escaped |-> <<>>, asked |-> <<>>]
        ELSE IF up.t = "raise" THEN handle(up.exc, <<>>)
        ELSE IF IsNone(up.v) THEN [go EXCEPT !.asked = <<>>, !.pc = "done"]
        ELSE IF ~shown.ok THEN handle(shown.exc, <<shown>>)
        ELSE IF ~shown.value THEN go
        ELSE LET text == JsonDumps(up.v) IN
             IF ~text.ok THEN handle(text.exc, <<shown>>)
             ELSE [go EXCEPT !.emit = <<Frame(text.value)>>]

\* lines 123-146: one pass of `async for event in event_iterator` for what
\* the iterator gave (up) and what the filter says of it (shown): the
\* frames emitted, whether the generator goes on, the exception that escapes, and the filter's
\* answer when the filter was asked.
LoopPass(up, shown) ==
    LET go == [emit |-> <<>>, pc |-> "loop", escaped |-> <<>>, asked |-> <<shown>>]
        handle(exc, asked) ==
            LET h == EventStreamExcept(exc)
            IN  [emit |-> h.emit, pc |-> "done", escaped |-> h.escaped, asked |-> asked]
    IN  IF up.t = "stop" THEN [emit |-> <<>>, pc |-> "done", escaped |-> <<>>, asked |-> <<>>]
        ELSE IF up.t = "raise" THEN handle(up.exc, <<>>)
        ELSE IF IsNone(up.v) THEN [go EXCEPT !.asked = <<>>]
        ELSE IF ~shown.ok THEN handle(shown.exc, <<shown>>)
        ELSE IF ~shown.value THEN go
        ELSE LET text == JsonDumps(up.v) IN
             IF ~text.ok THEN handle(text.exc, <<shown>>)
             ELSE [go EXCEPT !.emit = <<Frame(text.value)>>]

\* mediator_enabled(): CHAT_RUNTIME names a bridge mode
mediator_enabled(environ) == environ.CHAT_RUNTIME \in BRIDGE_MODES

\* str(uuid.uuid4()) if conversation_id is None else conversation_id
OrUuidForNoneOnly(conversation_id, n) ==
    IF conversation_id = NoneVal THEN uuid4(n + 1) ELSE conversation_id

\* conversation_id or str(uuid.uuid4()), with n identifiers generated so far
OrUuid(conversation_id, n) ==
    IF conversation_id = NoneVal \/ conversation_id = "" THEN uuid4(n + 1) ELSE conversation_id

\* The identifiers OrUuid generates
UuidsUsed(conversation_id) ==
    IF conversation_id = NoneVal \/ conversation_id = "" THEN 1 ELSE 0

\* MarketingAdapter.__init__: the adapter, or the exception of a mode that
\* is neither local nor http, of a missing platform, of a missing httpx.
MarketingAdapterInit(environ) ==
    IF environ.MARKETING_MODE = "local"
    THEN IF environ.platform_ok
         THEN Ok([mode |-> "local", http_client |-> "absent"])
         ELSE Raise("RuntimeError", "Marketing platform not found")
    ELSE IF environ.MARKETING_MODE = "http"
    THEN IF environ.httpx_ok
         THEN Ok([mode |-> "http", http_client |-> "open"])
         ELSE Raise("RuntimeError", "httpx library required for HTTP mode")
    ELSE Raise("ValueError", "Invalid MARKETING_MODE: " \o environ.MARKETING_MODE)

\* AgentMediator.__init__
AgentMediatorInit(conversation_id, environ, n) ==
    LET adapter == MarketingAdapterInit(environ) IN
    IF ~adapter.ok THEN adapter
    ELSE Ok([made |-> TRUE, conversation_id |-> OrUuid(conversation_id, n),
             adapter |-> adapter.value])

\* lines 53-72 alone, without the check of the mode at lines 48-51
GetOrCreateAgentUnguarded(conversation_id, environ, runtime, n) ==
    IF ~runtime.ok THEN runtime
    ELSE Ok([made |-> TRUE, conversation_id |-> OrUuid(conversation_id, n)])

\* get_or_create_agent, given what get_env and Agent(...) do (runtime)
get_or_create_agent(conversation_id, environ, runtime, n) ==
    IF mediator_enabled(environ)
    THEN Raise("RuntimeError", "Local agent runtime is disabled")
    ELSE IF ~runtime.ok THEN runtime
    ELSE Ok([made |-> TRUE, conversation_id |-> OrUuid(conversation_id, n)])

\* What get_env / Agent(...) do: succeed, or raise.
AgentRuntimes == {Ok("agent"), Raise("AgentError", "environment unavailable")}

\* What agent.run_stream gives on one __anext__: an event (one of them
\* holding an object json cannot encode), None, the end, or an exception.
AgentEvents ==
    { [event_type |-> "tool_end", data |-> [type |-> "web_search", tool_name |-> "web_search"]],
      [event_type |-> "tool_end", data |-> [type |-> "shell_exec", handle |-> "<object>"]] }

AgentUps ==
    {Item(e) : e \in AgentEvents} \cup {NoneItem, Stop, Raised([cls |-> "AgentError", msg |-> "model overloaded"])}

\* --------------------------- marketing_adapter.py: get_filters, get_summary
\* A JSON object whose key order is read, as the list of its items.
JObject(items) == [t |-> "dict", items |-> items]

\* list(mapping.keys())
Keys(mapping) == [i \in 1..Len(mapping.items) |-> mapping.items[i].key]

\* The list get_filters returns in local mode (lines 210-216).
LocalFilters ==
    << "VIP customers only",
       "High value customers (Average Order > $300)",
       "Active customers in last 30 days",
       "Frequent buyers (10+ purchases)",
       "Churn risk customers (inactive 90+ days)" >>

\* The filters mappings GET /marketing/filters may carry.
FilterMappings ==
    { JObject(<<>>),
      JObject(<< [key |-> "VIP customers only", value |-> "is_vip"],
                 [key |-> "Loyal customers", value |-> "orders > 5"] >>) }

\* What the HTTP client does with GET /marketing/filters.
FilterReplies ==
    { [connected |-> FALSE, status_code |-> 0, body |-> JNull],
      [connected |-> TRUE, status_code |-> 500, body |-> [t |-> "invalid"]],
      [connected |-> TRUE, status_code |-> 200, body |-> [t |-> "invalid"]],
      [connected |-> TRUE, status_code |-> 200, body |-> JList(<<>>)],
      [connected |-> TRUE, status_code |-> 200, body |-> JDict([status |-> "ok"])],
      [connected |-> TRUE, status_code |-> 200, body |-> JDict([filters |-> JList(<<>>)])] }
    \cup { [connected |-> TRUE, status_code |-> 200, body |-> JDict([filters |-> f])] :
             f \in FilterMappings }

\* The try block of get_filters in HTTP mode (lines 219-222).
FiltersTry(reply) ==
    IF ~reply.connected
    THEN Raise("ConnectError", "All connection attempts failed")
    ELSE IF ~(reply.status_code \in 200..299)
    THEN Raise("HTTPStatusError", "error response for url /marketing/filters")
    ELSE IF reply.body.t = "invalid"
    THEN Raise("JSONDecodeError", "Expecting value: line 1 column 1 (char 0)")
    ELSE IF reply.body.t # "dict"
    THEN Raise("AttributeError", "object has no attribute 'get'")
    ELSE LET filters == Get(reply.body.v, "filters", JObject(<<>>)) IN
         IF filters.t # "dict"
         THEN Raise("AttributeError", "object has no attribute 'keys'")
         ELSE Ok(Keys(filters))

\* get_filters without the handler at lines 223-225
GetFiltersUncaught(mode, reply) ==
    IF mode = "local" THEN Ok(LocalFilters) ELSE FiltersTry(reply)

\* MarketingAdapter.get_filters, given what the HTTP client does (reply is
\* not read in local mode).
get_filters(mode, reply) ==
    IF mode = "local" THEN Ok(LocalFilters)
    ELSE LET r == FiltersTry(reply) IN
         IF r.ok THEN r
         ELSE IF IsException(r.exc) THEN Ok(<<>>)
         ELSE r

\* What service.get_customer_summary() does: raises, or returns a mapping.
SummaryOutcomes ==
    { Raise("RuntimeError", "engine unavailable"),
      Ok(JDict([total_customers |-> 3, total_lifetime_value |-> 600])) }

\* What the HTTP client does with GET /marketing/summary.
SummaryReplies ==
    { [connected |-> FALSE, status_code |-> 0, body |-> JNull],
      [connected |-> TRUE, status_code |-> 500, body |-> [t |-> "invalid"]],
      [connected |-> TRUE, status_code |-> 200, body |-> [t |-> "invalid"]],
      [connected |-> TRUE, status_code |-> 200,
       body |-> JDict([total_customers |-> 3, total_lifetime_value |-> 600])] }

\* The try blocks of get_summary (lines 230-231 and 237-239).
SummaryTry(mode, backend) ==
    IF mode = "local" THEN backend
    ELSE IF ~backend.connected
    THEN Raise("ConnectError", "All connection attempts failed")
    ELSE IF ~(backend.status_code \in 200..299)
    THEN Raise("HTTPStatusError", "error response for url /marketing/summary")
    ELSE IF backend.body.t = "invalid"
    THEN Raise("JSONDecodeError", "Expecting value: line 1 column 1 (char 0)")
    ELSE Ok(backend.body)

\* MarketingAdapter.get_summary, given what the backend of its mode does.
get_summary(mode, backend) ==
    LET r == SummaryTry(mode, backend) IN
    IF r.ok THEN r
    ELSE IF IsException(r.exc) THEN Ok(JDict(<<>>))
    ELSE r

\* A closed httpx client refuses the request before anything is sent: of
\* the things the client may do, only the ones without a connection remain.
ClientDoes(adapter, replies) ==
    IF adapter.http_client = "closed" THEN {r \in replies : ~r.connected} ELSE replies

\* ------------------------------------- releasing the adapter's HTTP client
\* close() calling aclose() whatever the mode
CloseWithoutModeCheck(adapter) ==
    IF adapter.http_client = "absent"
    THEN [ adapter |-> adapter,
           result |-> Raise("AttributeError", "'MarketingAdapter' object has no attribute 'http_client'") ]
    ELSE [adapter |-> [adapter EXCEPT !.http_client = "closed"], result |-> Ok(NoneVal)]

\* MarketingAdapter.close: the adapter afterwards and what the call returns
close(adapter) ==
    IF adapter.mode = "http" /\ adapter.http_client # "absent"
    THEN [adapter |-> [adapter EXCEPT !.http_client = "closed"], result |-> Ok(NoneVal)]
    ELSE [adapter |-> adapter, result |-> Ok(NoneVal)]

\* AgentMediator.cleanup: the mediator afterwards. event_stream holds the
\* only reference to its mediator and has no call of it.
cleanup(m) == [m EXCEPT !.adapter = close(m.adapter).adapter]

\* ------------------------------------------------------------------ state
VARIABLES
    environ,                \* os.environ and the installation, fixed per process
    query,                  \* event_stream's query argument
    conversation_id,        \* event_stream's conversation_id argument
    pc,                     \* where event_stream is suspended
    frames,                 \* the frames event_stream has yielded
    escaped,                \* exceptions raised out of event_stream
    actual_conversation_id, \* event_stream's local of that name
    mediator,               \* event_stream's mediator (made or not)
    agent,                  \* event_stream's agent (made or not)
    mpc,                    \* where mediator.stream is suspended
    events,                 \* the events mediator.stream has yielded
    mediator_escaped,       \* exceptions raised out of mediator.stream
    requests,               \* the requests the adapter has sent to its backend
    results,                \* what adapter.query has returned or raised
    clock,                  \* readings of the clock so far
    uuids,                  \* identifiers generated so far
    pulled,                 \* items taken from agent.run_stream
    passes,                 \* history: what each pass of the loop was given
    backends,               \* history: what the backend did with each request
    consumer,               \* whether event_stream's consumer still iterates
    agent_calls,            \* outcomes of get_or_create_agent called by other code
    unit,                   \* a MarketingAdapter used on its own
    calls,                  \* the calls made on it and on _wrap_event, with results
    other,                  \* a second request of the process, while it is suspended
    running                 \* which of the two requests the variables above hold

vars ==
    << environ, query, conversation_id, pc, frames, escaped, actual_conversation_id,
       mediator, agent, mpc, events, mediator_escaped, requests, results, clock,
       uuids, pulled, passes, backends, consumer, agent_calls, unit, calls,
       other, running >>

\* What the request leaves alone: the other users of the module
others == <<agent_calls, unit, calls, other, running>>

Environs ==
    { [CHAT_RUNTIME |-> "panda-agent", MARKETING_MODE |-> "local",
       platform_ok |-> TRUE, httpx_ok |-> TRUE] }
    \cup { [CHAT_RUNTIME |-> "mediator", MARKETING_MODE |-> "local",
            platform_ok |-> b, httpx_ok |-> TRUE] : b \in BOOLEAN }
    \cup { [CHAT_RUNTIME |-> "mediator", MARKETING_MODE |-> "http",
            platform_ok |-> TRUE, httpx_ok |-> b] : b \in BOOLEAN }
    \cup { [CHAT_RUNTIME |-> "mediator", MARKETING_MODE |-> "grpc",
            platform_ok |-> TRUE, httpx_ok |-> TRUE] }

Init ==
    /\ environ \in Environs
    /\ query \in Queries
    /\ conversation_id \in ConversationIds
    /\ pc = "start"
    /\ frames = <<>>
    /\ escaped = <<>>
    /\ actual_conversation_id = NoneVal
    /\ mediator = [made |-> FALSE]
    /\ agent = [made |-> FALSE]
    /\ mpc = "unborn"
    /\ events = <<>>
    /\ mediator_escaped = <<>>
    /\ requests = <<>>
    /\ results = <<>>
    /\ clock = 0
    /\ uuids = 0
    /\ pulled = 0
    /\ passes = <<>>
    /\ backends = <<>>
    /\ consumer = "iterating"
    /\ agent_calls = <<>>
    /\ unit = [made |-> FALSE]
    /\ calls = <<>>
    /\ other = [made |-> FALSE]
    /\ running = 1

\* The body of an async generator runs only inside an __anext__ of its
\* consumer: between two of them it is suspended at its yield. With a
\* producer that runs on by itself:
DrivenEagerly == TRUE

\* `async def event_stream` with its yields (lines 75, 119, 133): a step of
\* the generator, and of the iterator it pulls from, is requested by the
\* consumer.
Driven == consumer = "iterating"

\* lines 92-108: event_stream's choice of the event source
SetupSource(conv, env, runtime, n) ==
    IF mediator_enabled(env)
    THEN AgentMediatorInit(conv, env, n)
    ELSE get_or_create_agent(conv, env, runtime, n)

\* lines 88-119 (and 135-146 when the set-up raises): the first resumption
\* of event_stream, up to its first yield.
Setup ==
    /\ Driven
    /\ pc = "start"
    /\ \E runtime \in AgentRuntimes :
         LET source == SetupSource(conversation_id, environ, runtime, uuids) IN
         IF source.ok
         THEN /\ IF mediator_enabled(environ)
                 THEN /\ mediator' = source.value
                      /\ mpc' = "start"
                      /\ agent' = agent
                 ELSE /\ agent' = source.value
                      /\ UNCHANGED <<mediator, mpc>>
              /\ actual_conversation_id' = source.value.conversation_id
              /\ uuids' = uuids + UuidsUsed(conversation_id)
              /\ frames' = Append(frames,
                     Frame(JsonDumps(ConversationEvent(source.value.conversation_id)).value))
              /\ pc' = "yielded"
              /\ escaped' = escaped
         ELSE LET h == EventStreamExcept(source.exc) IN
              /\ frames' = frames \o h.emit
              /\ escaped' = escaped \o h.escaped
              /\ pc' = "done"
              /\ uuids' = uuids + UuidsUsed(conversation_id)
              /\ UNCHANGED <<mediator, agent, mpc, actual_conversation_id>>
    /\ UNCHANGED <<environ, query, conversation_id, events, mediator_escaped,
                   requests, results, clock, pulled, passes, backends>>
    /\ UNCHANGED <<consumer, others>>

\* line 120: resumed after the first frame, event_stream sleeps 0.01 s and
\* then enters the loop.
EnterLoop ==
    /\ Driven
    /\ pc = "yielded"
    /\ pc' = "loop"
    /\ UNCHANGED <<environ, query, conversation_id, frames, escaped,
                   actual_conversation_id, mediator, agent, mpc, events,
                   mediator_escaped, requests, results, clock, uuids, pulled,
                   passes, backends>>
    /\ UNCHANGED <<consumer, others>>

\* event_stream takes what its iterator gave and runs one pass of the loop.
Deliver(up) ==
    \E shown \in FilterOutcomes :
        LET pass == LoopPass(up, shown) IN
        /\ frames' = frames \o pass.emit
        /\ pc' = pass.pc
        /\ escaped' = escaped \o pass.escaped
        /\ passes' = Append(passes, [up |-> up, asked |-> pass.asked])

\* mediator.stream ran to its next yield, to its end or to an exception.
Advance(step) ==
    /\ mpc' = step.mpc
    /\ events' = IF step.up.t = "item" THEN Append(events, step.up.v) ELSE events
    /\ mediator_escaped' = IF step.up.t = "raise"
                           THEN Append(mediator_escaped, step.up.exc)
                           ELSE mediator_escaped
    /\ clock' = IF step.up.t = "item" THEN clock + 1 ELSE clock
    /\ uuids' = IF step.up.t = "item" THEN uuids + 1 ELSE uuids
    /\ Deliver(step.up)

Mediated == mediator.made /\ pc = "loop"

\* lines 44-52: the first __anext__ of mediator.stream yields the echo.
MediatorEcho ==
    /\ Driven
    /\ Mediated
    /\ mpc = "start"
    /\ Advance([up |-> Item(_wrap_event(EchoData(query), clock, uuids)), mpc |-> "echoed"])
    /\ UNCHANGED <<environ, query, conversation_id, actual_conversation_id,
                   mediator, agent, requests, results, pulled, backends>>
    /\ UNCHANGED <<consumer, others>>

\* line 54: resumed after the echo, mediator.stream sleeps 0.05 s.
MediatorSleep ==
    /\ Driven
    /\ Mediated
    /\ mpc = "echoed"
    /\ mpc' = "slept"
    /\ UNCHANGED <<environ, query, conversation_id, pc, frames, escaped,
                   actual_conversation_id, mediator, agent, events,
                   mediator_escaped, requests, results, clock, uuids, pulled,
                   passes, backends>>
    /\ UNCHANGED <<consumer, others>>

\* lines 56-91 in local mode: adapter.query calls the service in process
\* and returns without suspending; mediator.stream runs on to its yield.
MediatorQueryLocal ==
    /\ Driven
    /\ Mediated
    /\ mpc = "slept"
    /\ mediator.adapter.mode = "local"
    /\ \E backend \in LocalOutcomes :
         LET qres == AdapterQuery(mediator.adapter.mode, query, backend) IN
         /\ requests' = Append(requests, AdapterRequest(mediator.adapter.mode, query, QueryLimit))
         /\ results' = Append(results, qres)
         /\ backends' = Append(backends, backend)
         /\ Advance(AfterQuery(query, qres, clock, uuids))
    /\ UNCHANGED <<environ, query, conversation_id, actual_conversation_id,
                   mediator, agent, pulled>>
    /\ UNCHANGED <<consumer, others>>

\* lines 56-59 and 160-175 in HTTP mode: adapter.query posts the payload
\* and suspends until the reply.
MediatorQueryHttp ==
    /\ Driven
    /\ Mediated
    /\ mpc = "slept"
    /\ mediator.adapter.mode # "local"
    /\ requests' = Append(requests, AdapterRequest(mediator.adapter.mode, query, QueryLimit))
    /\ mpc' = "awaiting_http"
    /\ UNCHANGED <<environ, query, conversation_id, pc, frames, escaped,
                   actual_conversation_id, mediator, agent, events,
                   mediator_escaped, results, clock, uuids, pulled, passes,
                   backends>>
    /\ UNCHANGED <<consumer, others>>

\* lines 176-194 and 61-91: the reply arrives, adapter.query returns and
\* mediator.stream runs on to its yield.
MediatorHttpReply ==
    /\ Driven
    /\ Mediated
    /\ mpc = "awaiting_http"
    /\ \E reply \in HttpReplies :
         LET qres == AdapterQuery(mediator.adapter.mode, query, reply) IN
         /\ results' = Append(results, qres)
         /\ backends' = Append(backends, reply)
         /\ Advance(AfterQuery(query, qres, clock, uuids))
    /\ UNCHANGED <<environ, query, conversation_id, actual_conversation_id,
                   mediator, agent, requests, pulled>>
    /\ UNCHANGED <<consumer, others>>

\* lines 93-122: resumed after the marketing_response.
MediatorSummary ==
    /\ Driven
    /\ Mediated
    /\ mpc = "responded"
    /\ Advance(AfterResponse(query, results[Len(results)].value, clock, uuids))
    /\ UNCHANGED <<environ, query, conversation_id, actual_conversation_id,
                   mediator, agent, requests, results, pulled, backends>>
    /\ UNCHANGED <<consumer, others>>

\* line 71, and the ends of the try block and of the handler: resumed
\* after its last event, mediator.stream finishes.
MediatorFinish ==
    /\ Driven
    /\ Mediated
    /\ mpc \in {"errored", "summarized", "failed"}
    /\ Advance([up |-> Stop, mpc |-> "done"])
    /\ UNCHANGED <<environ, query, conversation_id, actual_conversation_id,
                   mediator, agent, requests, results, pulled, backends>>
    /\ UNCHANGED <<consumer, others>>

\* lines 105 and 123: one __anext__ of agent.run_stream.
AgentNext ==
    /\ Driven
    /\ agent.made
    /\ pc = "loop"
    /\ \E up \in AgentUps :
         /\ up.t = "item" => pulled < MaxUpstream
         /\ pulled' = IF up.t = "item" THEN pulled + 1 ELSE pulled
         /\ Deliver(up)
    /\ UNCHANGED <<environ, query, conversation_id, actual_conversation_id,
                   mediator, agent, mpc, events, mediator_escaped, requests,
                   results, clock, uuids, backends>>
    /\ UNCHANGED <<consumer, others>>

\* event_stream is suspended at one of its yields (lines 119, 133): the
\* consumer holds the frame and the control.
AtYield ==
    \/ pc = "yielded"
    \/ /\ pc = "loop"
       /\ mpc \notin {"slept", "awaiting_http"}
       /\ Len(passes) > 0
       /\ passes[Len(passes)].asked = <<Ok(TRUE)>>

\* The consumer of event_stream stops iterating after a frame (the client
\* disconnected): it makes no further __anext__.
Abandon ==
    /\ Driven
    /\ AtYield
    /\ consumer' = "abandoned"
    /\ UNCHANGED <<environ, query, conversation_id, pc, frames, escaped,
                   actual_conversation_id, mediator, agent, mpc, events,
                   mediator_escaped, requests, results, clock, uuids, pulled,
                   passes, backends, others>>

Next ==
    \/ Setup
    \/ EnterLoop
    \/ MediatorEcho
    \/ MediatorSleep
    \/ MediatorQueryLocal
    \/ MediatorQueryHttp
    \/ MediatorHttpReply
    \/ MediatorSummary
    \/ MediatorFinish
    \/ AgentNext
    \/ Abandon

Spec == Init /\ [][Next]_vars

\* ----------------------------------- the process around the request
\* lines 35-72: other code of the process calls get_or_create_agent, with
\* any conversation id and whatever get_env / Agent(...) would do.
GetOrCreateAgentCall ==
    /\ Len(agent_calls) < MaxAgentCalls
    /\ \E conv \in ConversationIds, runtime \in AgentRuntimes :
         LET outcome == get_or_create_agent(conv, environ, runtime, uuids) IN
         /\ agent_calls' = Append(agent_calls, outcome)
         /\ uuids' = IF outcome = Raise("RuntimeError", "Local agent runtime is disabled")
                      THEN uuids
                      ELSE uuids + UuidsUsed(conv)
    /\ UNCHANGED <<environ, query, conversation_id, pc, frames, escaped,
                   actual_conversation_id, mediator, agent, mpc, events,
                   mediator_escaped, requests, results, clock, pulled, passes,
                   backends, consumer, unit, calls, other, running>>

\* The queries of the request in the process specification
ProcessQueries == {"VIP customers only", "vip customers only"}

InitProcess == Init /\ query \in ProcessQueries

NextProcess ==
    \/ Next
    \/ GetOrCreateAgentCall

SpecProcess == InitProcess /\ [][NextProcess]_vars

\* ------------------------------------------- the adapter used on its own
\* test_integration.py: a MarketingAdapter is constructed, queried, asked
\* for its filters and its summary and closed, without a mediator.
\* What the backend does for the queries made this way.
UnitLocalOutcomes ==
    {o \in LocalOutcomes : ~o.ok \/ (o.value.success /\ o.value.count = 0 /\ o.value.customers = <<>>)}

UnitHttpReplies ==
    {r \in HttpReplies : \/ ~r.connected
                         \/ r.status_code = 500
                         \/ r.body = JDict([success |-> FALSE, error |-> "boom"])}

\* The data _wrap_event is given: with and without a tool_name, with the
\* types it treats apart, without a type, with an id or a timestamp.
WrapInputs ==
    { [type |-> "marketing_response", tool_name |-> "omt.marketing.filter"],
      [type |-> "error", tool_name |-> "omt.marketing.error"],
      [type |-> "progress"],
      [type |-> "user_send_message"],
      [type |-> "error", error |-> "boom"],
      [message |-> "hello"],
      [type |-> "progress", id |-> "step-7"],
      [type |-> "progress", timestamp |-> "yesterday"] }

unit_vars ==
    << query, conversation_id, pc, frames, escaped, actual_conversation_id,
       mediator, agent, mpc, events, mediator_escaped, requests, results,
       pulled, passes, backends, consumer, agent_calls, other, running >>

\* One more call in the log of calls
Called(op, arg, backend, result) ==
    /\ Len(calls) < MaxCalls
    /\ calls' = Append(calls, [ op |-> op, arg |-> arg, backend |-> backend,
                                closes |-> Len(unit.closed), result |-> result ])

\* test_integration.py line 33: MarketingAdapter()
UnitConstruct ==
    /\ unit = [made |-> FALSE]
    /\ LET adapter == MarketingAdapterInit(environ) IN
       unit' = IF adapter.ok
               THEN [made |-> TRUE, adapter |-> adapter.value, closed |-> <<>>]
               ELSE [made |-> FALSE, raised |-> adapter.exc]
    /\ UNCHANGED <<environ, clock, uuids, calls, unit_vars>>

\* test_integration.py lines 38, 52: adapter.query(...)
UnitQuery ==
    /\ unit.made
    /\ \E q \in ProcessQueries :
       \E backend \in IF unit.adapter.mode = "local" THEN UnitLocalOutcomes
                       ELSE ClientDoes(unit.adapter, UnitHttpReplies) :
           Called("query", q, backend, AdapterQuery(unit.adapter.mode, q, backend))
    /\ UNCHANGED <<environ, clock, uuids, unit, unit_vars>>

\* test_integration.py line 65: adapter.get_filters()
UnitGetFilters ==
    /\ unit.made
    /\ \E reply \in ClientDoes(unit.adapter, FilterReplies) :
           LET backend == IF unit.adapter.mode = "local" THEN JNull ELSE reply
           IN  Called("get_filters", NoneVal, backend, get_filters(unit.adapter.mode, reply))
    /\ UNCHANGED <<environ, clock, uuids, unit, unit_vars>>

\* test_integration.py line 72: adapter.get_summary()
UnitGetSummary ==
    /\ unit.made
    /\ \E backend \in IF unit.adapter.mode = "local" THEN SummaryOutcomes
                       ELSE ClientDoes(unit.adapter, SummaryReplies) :
           Called("get_summary", NoneVal, backend, get_summary(unit.adapter.mode, backend))
    /\ UNCHANGED <<environ, clock, uuids, unit, unit_vars>>

\* test_integration.py line 81: adapter.close()
UnitClose ==
    /\ unit.made
    /\ Len(unit.closed) < MaxCloses
    /\ LET c == close(unit.adapter) IN
       unit' = [unit EXCEPT !.adapter = c.adapter, !.closed = Append(@, c.result)]
    /\ UNCHANGED <<environ, clock, uuids, calls, unit_vars>>

\* mediator.py lines 135-154: _wrap_event(data=...) for any data
UnitWrapEvent ==
    /\ \E data \in WrapInputs :
           /\ Len(calls) < MaxCalls
           /\ calls' = Append(calls, [ op |-> "_wrap_event", arg |-> data,
                                       clock |-> clock, uuids |-> uuids,
                                       result |-> _wrap_event(data, clock, uuids) ])
    /\ clock' = clock + 1
    /\ uuids' = uuids + 1
    /\ UNCHANGED <<environ, unit, unit_vars>>

InitUnits == Init /\ query = "VIP customers only" /\ conversation_id = NoneVal

NextUnits ==
    \/ UnitConstruct
    \/ UnitQuery
    \/ UnitGetFilters
    \/ UnitGetSummary
    \/ UnitClose
    \/ UnitWrapEvent

SpecUnits == InitUnits /\ [][NextUnits]_vars

\* --------------------------------------- two requests in one process
\* The event loop runs one coroutine at a time and changes coroutine only
\* where the running one is suspended. The variables of the request hold
\* the request that runs; `other` holds the one that waits.
\* What a request owns: the locals of its event_stream generator
\* (agent.py:88-108), the mediator it constructed with its adapter
\* (mediator.py:34-38), and what its consumer holds.
Own ==
    [ query |-> query, conversation_id |-> conversation_id, pc |-> pc,
      frames |-> frames, escaped |-> escaped,
      actual_conversation_id |-> actual_conversation_id, mediator |-> mediator,
      agent |-> agent, mpc |-> mpc, events |-> events,
      mediator_escaped |-> mediator_escaped, requests |-> requests,
      results |-> results, pulled |-> pulled, passes |-> passes,
      backends |-> backends, consumer |-> consumer ]

\* A request resumed with the query the process saw last
ResumeWithLastQuery(saved, current) == [saved EXCEPT !.query = current.query]

\* What a request resumes with, given what it was suspended with (saved)
\* and what the request that ran meanwhile holds (current): the module
\* keeps nothing of a request outside its generator and its mediator.
Resume(saved, current) == saved

\* The two requests: their queries and the conversation ids they may carry.
TwoQueries == <<"VIP customers only", "vip customers only">>

TwoConversationIds == <<{NoneVal}, {NoneVal}>>

\* The process of two requests runs the mediator.
TwoEnvirons == {e \in Environs : /\ e.CHAT_RUNTIME = "mediator"
                                  /\ e.MARKETING_MODE \in {"local", "http"}
                                  /\ e.platform_ok /\ e.httpx_ok}

\* What the backend and the filter do for the two requests.
TwoBackends ==
    { o \in LocalOutcomes :
        ~o.ok \/ /\ o.value.success /\ o.value.count = 1
                 /\ o.value.customers = <<Customer(1, JNum(100))>>
                 /\ o.value.metadata = JDict([engine_used |-> "sql", tokens_used |-> 0,
                                              execution_time |-> 1]) }
    \cup { r \in HttpReplies :
             ~r.connected \/ r.body = JDict([success |-> FALSE, error |-> "boom"]) }

TwoFilterOutcomes == {Ok(TRUE), Ok(FALSE)}

TwoBound ==
    /\ \A i \in 1..Len(backends) : backends[i] \in TwoBackends
    /\ \A k \in 1..Len(passes) : \A i \in 1..Len(passes[k].asked) :
          passes[k].asked[i] \in TwoFilterOutcomes

\* The event loop leaves the running request where it is suspended and
\* resumes the other one.
Switch ==
    /\ other.pc # "done"
    /\ running' = 3 - running
    /\ other' = Own
    /\ LET r == Resume(other, Own) IN
       /\ query' = r.query
       /\ conversation_id' = r.conversation_id
       /\ pc' = r.pc
       /\ frames' = r.frames
       /\ escaped' = r.escaped
       /\ actual_conversation_id' = r.actual_conversation_id
       /\ mediator' = r.mediator
       /\ agent' = r.agent
       /\ mpc' = r.mpc
       /\ events' = r.events
       /\ mediator_escaped' = r.mediator_escaped
       /\ requests' = r.requests
       /\ results' = r.results
       /\ pulled' = r.pulled
       /\ passes' = r.passes
       /\ backends' = r.backends
       /\ consumer' = r.consumer
    /\ UNCHANGED <<environ, clock, uuids, agent_calls, unit, calls>>

InitTwo ==
    /\ environ \in TwoEnvirons
    /\ running = 1
    /\ query = TwoQueries[1]
    /\ conversation_id \in TwoConversationIds[1]
    /\ pc = "start"
    /\ frames = <<>>
    /\ escaped = <<>>
    /\ actual_conversation_id = NoneVal
    /\ mediator = [made |-> FALSE]
    /\ agent = [made |-> FALSE]
    /\ mpc = "unborn"
    /\ events = <<>>
    /\ mediator_escaped = <<>>
    /\ requests = <<>>
    /\ results = <<>>
    /\ clock = 0
    /\ uuids = 0
    /\ pulled = 0
    /\ passes = <<>>
    /\ backends = <<>>
    /\ consumer = "iterating"
    /\ agent_calls = <<>>
    /\ unit = [made |-> FALSE]
    /\ calls = <<>>
    /\ \E conv \in TwoConversationIds[2] :
          other = [ query |-> TwoQueries[2], conversation_id |-> conv, pc |-> "start",
                    frames |-> <<>>, escaped |-> <<>>, actual_conversation_id |-> NoneVal,
                    mediator |-> [made |-> FALSE], agent |-> [made |-> FALSE],
                    mpc |-> "unborn", events |-> <<>>, mediator_escaped |-> <<>>,
                    requests |-> <<>>, results |-> <<>>, pulled |-> 0, passes |-> <<>>,
                    backends |-> <<>>, consumer |-> "iterating" ]

NextTwo ==
    \/ Setup
    \/ EnterLoop
    \/ MediatorEcho /\ TwoBound'
    \/ MediatorSleep
    \/ MediatorQueryLocal /\ TwoBound'
    \/ MediatorQueryHttp
    \/ MediatorHttpReply /\ TwoBound'
    \/ MediatorSummary /\ TwoBound'
    \/ MediatorFinish
    \/ Switch

SpecTwo == InitTwo /\ [][NextTwo]_vars

\* ============================================================ properties
\* What a consumer reads back from a frame: the object between the tags.
FrameObject(frame) == frame.json.dumps

IsStartFrame(frame) ==
    /\ "type" \in DOMAIN FrameObject(frame).data
    /\ FrameObject(frame).data.type = "conversation_started"

\* An error frame: event_stream's own, or a mediator event of type error.
IsErrorFrame(frame) ==
    \/ /\ "event_type" \in DOMAIN FrameObject(frame).data
       /\ FrameObject(frame).data.event_type = "error"
    \/ /\ "type" \in DOMAIN FrameObject(frame).data
       /\ FrameObject(frame).data.type = "error"

Types(evs) == [i \in 1..Len(evs) |-> evs[i].data.type]

Range(f) == {f[i] : i \in DOMAIN f}

\* The one result of the request, once adapter.query has returned it.
HasResult == Len(results) = 1 /\ results[1].ok

TheResult == results[1].value

\* ---- C1 -----------------------------------------------------------------
\* C1: whatever the mode, the conversation id and the outcome of the
\* set-up, the first frame event_stream emits is the conversation_started
\* frame; no frame, an error frame included, comes before it.
C1_FirstFrameIsConversationStarted ==
    frames # <<>> => IsStartFrame(frames[1])

\* ---- C2 -----------------------------------------------------------------
\* The frames of the events of passes that are not None and that the filter
\* accepts, in order.
RECURSIVE RenderedFrames(_)
RenderedFrames(ps) ==
    IF ps = <<>> THEN <<>>
    ELSE LET p == ps[1] IN
         (IF p.up.t = "item" /\ p.asked = <<Ok(TRUE)>>
          THEN <<[open |-> "<event>", json |-> [dumps |-> p.up.v], close |-> "</event>"]>>
          ELSE <<>>)
         \o RenderedFrames(Tail(ps))

\* C2: when the upstream raises after k events, event_stream has emitted
\* the conversation_started frame, the frames of the k events that are not
\* None and pass the filter, and one error frame carrying str(exception);
\* it has ended (no pass and no frame follows) and raised nothing.
C2_UpstreamRaiseEndsWithOneErrorFrame ==
    \A k \in 1..Len(passes) :
        passes[k].up.t = "raise" =>
            /\ k = Len(passes)
            /\ pc = "done"
            /\ escaped = <<>>
            /\ Len(frames) >= 2
            /\ IsStartFrame(frames[1])
            /\ SubSeq(frames, 2, Len(frames) - 1) = RenderedFrames(SubSeq(passes, 1, k - 1))
            /\ FrameObject(frames[Len(frames)])
                 = [data |-> [event_type |-> "error", error |-> passes[k].up.exc.msg]]
            /\ \A i \in 1..(Len(frames) - 1) : ~IsErrorFrame(frames[i])

\* The upstream gave None, then an event the filter accepted, then raised.
C2_Witness ==
    /\ Len(passes) = 3
    /\ passes[3].up.t = "raise"
    /\ IsNone(passes[1].up.v)
    /\ Len(frames) = 3
    /\ pc = "done"

\* ---- C3 -----------------------------------------------------------------
\* A failure of a mediator-mode request: the mediator was not constructed,
\* mediator.stream yielded an error event, or the filter or json raised.
FailureSeen ==
    \/ ~mediator.made
    \/ "error" \in Range(Types(events))
    \/ \E k \in 1..Len(passes) :
          /\ passes[k].up.t = "item"
          /\ passes[k].asked # <<>>
          /\ \/ ~passes[k].asked[1].ok
             \/ passes[k].asked[1].value /\ ~JsonDumps(passes[k].up.v).ok

\* C3: on every failure path of a mediator-mode request the last frame
\* emitted before the stream ends is an error event; the filter does not
\* drop the mediator's error event.
C3_FailureEndsWithErrorFrame ==
    (mediator_enabled(environ) /\ pc = "done" /\ FailureSeen) =>
        /\ frames # <<>>
        /\ IsErrorFrame(frames[Len(frames)])

\* ---- C4 -----------------------------------------------------------------
\* C4: for a result with success false or absent, mediator.stream yields
\* the echo and then one error event and nothing else; the event's payload
\* is the whole record and its error field is the record's error string
\* (the literal "Unknown error" when the record carries none).
C4_FailureYieldsEchoThenError ==
    (HasResult /\ ~Get(TheResult, "success", FALSE)) =>
        /\ Types(events) = <<"user_send_message", "error">>
        /\ events[2].data.payload = TheResult
        /\ "error" \in DOMAIN TheResult => events[2].data.error = TheResult.error
        /\ "error" \notin DOMAIN TheResult => events[2].data.error = "Unknown error"

\* mediator.stream has finished on a record that has no success field and
\* the error string "boom".
C4_Witness ==
    /\ HasResult
    /\ mpc = "done"
    /\ "success" \notin DOMAIN TheResult
    /\ "error" \in DOMAIN TheResult
    /\ TheResult.error = "boom"
    /\ Len(events) = 2

\* ---- C5 -----------------------------------------------------------------
\* The record's customers field can be sliced (it is a list, or absent).
CustomersIsList(r) == Get(r, "customers", JList(<<>>)).t = "list"

\* Every lifetime_value of the record's customers is a number, or absent.
LifetimeValuesAreNumbers(r) ==
    LET cs == Get(r, "customers", JList(<<>>)).v IN
    \A i \in 1..Len(cs) : Get(cs[i], "lifetime_value", JNum(0)).t = "num"

ValueOf(customer) == Get(customer, "lifetime_value", JNum(0)).v

\* The sum of the lifetime values of a list of customer records.
RECURSIVE Total(_)
Total(cs) == IF cs = <<>> THEN 0 ELSE ValueOf(cs[Len(cs)]) + Total(SubSeq(cs, 1, Len(cs) - 1))

\* C6: every marketing_summary event reports as total_lifetime_value the
\* sum of lifetime_value over the whole customer list of the result (not
\* over the 20 the marketing_response shows), as average_lifetime_value
\* that total divided by the length of the whole list, and as
\* total_customers the result's count.
C6_SummaryAggregatesFullList ==
    \A i \in 1..Len(events) :
        events[i].data.type = "marketing_summary" =>
            LET cs == Get(TheResult, "customers", JList(<<>>)).v
                payload == events[i].data.payload
            IN  /\ payload.total_lifetime_value = Total(cs)
                /\ Len(cs) > 0 =>
                      payload.average_lifetime_value = [num |-> Total(cs), den |-> Len(cs)]
                /\ payload.total_customers = Get(TheResult, "count", 0)
                /\ Get(TheResult, "count", 0) > 0
                /\ Get(TheResult, "success", FALSE)

\* A summary was yielded for a customer list longer than the display cut.
C6_Witness ==
    /\ HasResult
    /\ Len(events) = 3
    /\ events[3].data.type = "marketing_summary"
    /\ Len(TheResult.customers.v) > DisplayLimit
    /\ events[3].data.payload.total_lifetime_value > 0

\* ---- C7 -----------------------------------------------------------------
Min(a, b) == IF a < b THEN a ELSE b

\* C7: in every marketing_response event the customers list is the first
\* min(20, n) records of the result's n customers in their order, and
\* customer_ids and count are the result's own, not cut.
C7_ResponseShowsFirstTwenty ==
    \A i \in 1..Len(events) :
        events[i].data.type = "marketing_response" =>
            LET cs == Get(TheResult, "customers", JList(<<>>)).v
                payload == events[i].data.payload
            IN  /\ payload.customers.t = "list"
                /\ Len(payload.customers.v) = Min(20, Len(cs))
                /\ \A j \in 1..Min(20, Len(cs)) : payload.customers.v[j] = cs[j]
                /\ payload.customer_ids = Get(TheResult, "customer_ids", <<>>)
                /\ payload.count = Get(TheResult, "count", 0)

\* A marketing_response for a result with more than 20 customers and more
\* than 20 identifiers.
C7_Witness ==
    /\ HasResult
    /\ Len(events) >= 2
    /\ events[2].data.type = "marketing_response"
    /\ Len(TheResult.customers.v) > 20
    /\ Len(events[2].data.payload.customer_ids) > 20
    /\ events[2].data.payload.count > 20

\* ---- C8 -----------------------------------------------------------------
\* What the body of the try block of the handler of the adapter's mode
\* does with what the backend did.
TryBody(backend) ==
    IF mediator.adapter.mode = "local" THEN LocalTry(query, backend) ELSE HttpTry(query, backend)

\* C8: adapter.query raises nothing in either mode; when the in-process
\* call or the HTTP call fails (an exception, a status outside 2xx, a body
\* that is no JSON object) it returns the record success=false, error =
\* the exception's message, query = the input text.
C8_QueryReturnsFailureRecord ==
    /\ mediator_escaped = <<>>
    /\ \A i \in 1..Len(results) :
          /\ results[i].ok
          /\ ~TryBody(backends[i]).ok =>
                results[i].value = [ success |-> FALSE,
                                     error |-> TryBody(backends[i]).exc.msg,
                                     query |-> query ]

\* adapter.query has returned for an HTTP reply with status 500.
C8_Witness ==
    /\ Len(results) = 1
    /\ mediator.adapter.mode = "http"
    /\ backends[1].connected
    /\ backends[1].status_code = 500
    /\ results[1].ok
    /\ ~results[1].value.success

\* ---- C9 -----------------------------------------------------------------
\* C9: in both modes the request carries exactly one of the two fields:
\* the filter field (filter_label / "filter") holding the query text when
\* the text is one of the five preset labels, and otherwise the free-text
\* field (custom_query / "query") holding the query text; so both modes
\* classify a query the same way.
C9_RequestCarriesOneField ==
    \A i \in 1..Len(requests) :
        LET request == requests[i]
            is_label == query \in { "VIP customers only",
                                    "High value customers (Average Order > $300)",
                                    "Active customers in last 30 days",
                                    "Frequent buyers (10+ purchases)",
                                    "Churn risk customers (inactive 90+ days)" }
        IN  IF mediator.adapter.mode = "local"
            THEN /\ request.filter_label = (IF is_label THEN query ELSE NoneVal)
                 /\ request.custom_query = (IF is_label THEN NoneVal ELSE query)
            ELSE /\ ("filter" \in DOMAIN request) <=> is_label
                 /\ ("query" \in DOMAIN request) <=> ~is_label
                 /\ is_label => request.filter = query
                 /\ ~is_label => request.query = query

\* An HTTP request for a text that differs from a preset label only in case.
C9_Witness ==
    /\ Len(requests) = 1
    /\ mediator.adapter.mode = "http"
    /\ query = "vip customers only"
    /\ "query" \in DOMAIN requests[1]

\* ---- C10 ----------------------------------------------------------------
\* C10: every record adapter.query returns, in local and in HTTP mode, has
\* an error string when its success flag is false.
C10_FailureRecordHasError ==
    \A i \in 1..Len(results) :
        (results[i].ok /\ "success" \in DOMAIN results[i].value /\ ~results[i].value.success)
            => "error" \in DOMAIN results[i].value

\* ---- C11 ----------------------------------------------------------------
\* C11: once a mediator-mode event_stream call has finished, with or
\* without an error frame, the HTTP client its adapter opened at
\* construction has been closed.
C11_ClientClosedWhenStreamFinished ==
    (pc = "done" /\ mediator.made /\ mediator.adapter.mode = "http")
        => mediator.adapter.http_client = "closed"

\* ---- C12 ----------------------------------------------------------------
\* C12: once the consumer has stopped iterating, no step pulls an event
\* from the upstream source (the mediator's stream or the agent's) and no
\* step sends a request to the backend or takes its reply.
C12_NoStepAfterAbandonment ==
    [][ consumer = "abandoned" =>
          /\ events' = events
          /\ pulled' = pulled
          /\ passes' = passes
          /\ requests' = requests
          /\ backends' = backends
          /\ results' = results
          /\ mpc' = mpc ]_vars

\* The consumer left after the echo frame, before the adapter was called.
C12_Witness ==
    /\ consumer = "abandoned"
    /\ mpc = "echoed"
    /\ requests = <<>>
    /\ Len(frames) = 2

\* ---- C13 ----------------------------------------------------------------
\* C13: when CHAT_RUNTIME names a bridge mode, every call of
\* get_or_create_agent raises the configuration error, whatever the
\* conversation id and whatever get_env and Agent(...) would have done (so
\* they were not reached), and event_stream makes a mediator and no agent
\* and pulls nothing from an agent; otherwise event_stream makes no
\* mediator, no mediator event and no adapter request.
C13_PathsAreExclusive ==
    /\ mediator_enabled(environ) =>
          /\ \A i \in 1..Len(agent_calls) :
                agent_calls[i] = Raise("RuntimeError", "Local agent runtime is disabled")
          /\ ~agent.made
          /\ pulled = 0
          /\ pc \in {"yielded", "loop"} => mediator.made
    /\ ~mediator_enabled(environ) =>
          /\ ~mediator.made
          /\ mpc = "unborn"
          /\ events = <<>>
          /\ requests = <<>>
          /\ pc \in {"yielded", "loop"} => agent.made

\* In bridge mode a direct call has failed while the request streams
\* mediator events.
C13_Witness ==
    /\ mediator_enabled(environ)
    /\ Len(agent_calls) = 1
    /\ mediator.made
    /\ Len(events) >= 2

\* Outside bridge mode the request streams agent events.
C13_WitnessAgentPath ==
    /\ ~mediator_enabled(environ)
    /\ agent.made
    /\ pulled > 0
    /\ Len(frames) >= 2

\* ---- C14 ----------------------------------------------------------------
\* The envelope of a stream event: an event-type tag and a timestamp at
\* the top level, and a data payload with its finer tag under `type`.
HasEnvelope(obj) ==
    /\ "event_type" \in DOMAIN obj
    /\ "timestamp" \in DOMAIN obj
    /\ "data" \in DOMAIN obj
    /\ "type" \in DOMAIN obj.data

\* C14: every frame event_stream emits, the conversation_started frame,
\* the frames of mediator and agent events and the error frame, carries an
\* object with that envelope.
C14_EveryFrameHasEnvelope ==
    \A i \in 1..Len(frames) : HasEnvelope(FrameObject(frames[i]))

\* ---- C15 ----------------------------------------------------------------
\* The positions of the error events among evs.
ErrorEvents(evs) == {i \in 1..Len(evs) : evs[i].data.type = "error"}

\* The exception raised in the try block of mediator.stream for the result
\* the adapter returned: slicing customers that are not a list (line 85),
\* or, after the marketing_response, adding a lifetime_value that is not a
\* number (line 96).
RaisesBuildingResponse(r) == Get(r, "success", FALSE) /\ ~CustomersIsList(r)

RaisesComputingSummary(r) ==
    /\ Get(r, "success", FALSE)
    /\ CustomersIsList(r)
    /\ Get(r, "count", 0) > 0
    /\ ~LifetimeValuesAreNumbers(r)

\* C15: an exception raised in mediator.stream after the echo becomes one
\* error event, "Marketing query failed: ..." with the query as payload,
\* and that event is the last of the stream; mediator.stream raises
\* nothing to its consumer, yields at most one error event, and nothing
\* after an error event.
C15_ExceptionBecomesOneLastErrorEvent ==
    /\ mediator_escaped = <<>>
    /\ Cardinality(ErrorEvents(events)) <= 1
    /\ \A i \in ErrorEvents(events) : i = Len(events)
    /\ ( /\ HasResult
         /\ \/ RaisesBuildingResponse(TheResult)
            \/ RaisesComputingSummary(TheResult) /\ mpc # "responded" )
       => /\ mpc \in {"failed", "done"}
          /\ ErrorEvents(events) = {Len(events)}
          /\ events[Len(events)].data.tool_name = "omt.marketing.error"
          /\ events[Len(events)].data.payload = [query |-> query]
          /\ events[Len(events)].data.error
               = "Marketing query failed: " \o
                 (IF RaisesBuildingResponse(TheResult)
                  THEN DisplayedCustomers(TheResult).exc.msg
                  ELSE SummaryOfFullList(TheResult).exc.msg)

\* The summary raised after the marketing_response and mediator.stream
\* has finished behind its error event.
C15_Witness ==
    /\ HasResult
    /\ RaisesComputingSummary(TheResult)
    /\ mpc = "done"
    /\ Len(events) = 3

\* ---- C16 ----------------------------------------------------------------
\* The normal sequence of mediator.stream and what it has yielded of it so
\* far.
NormalSequences ==
    { <<>>,
      <<"user_send_message">>,
      <<"user_send_message", "marketing_response">>,
      <<"user_send_message", "marketing_response", "marketing_summary">> }

\* C16 as stated: the events of mediator.stream are the normal sequence
\* (echo, marketing_response, then possibly marketing_summary) or the echo
\* followed by one error event and nothing else; no stream has both a
\* marketing_response and an error event.
C16_NormalOrEchoThenError ==
    /\ Types(events) \in NormalSequences \cup {<<"user_send_message", "error">>}
    /\ ~({"marketing_response", "error"} \subseteq Range(Types(events)))

\* C16 amended: the events are the normal sequence, or the echo followed
\* by one error event, or the echo and the marketing_response followed by
\* one error event, the last only when computing the summary raised; no
\* stream has both a marketing_summary and an error event.
C16_NormalOrEndingInOneError ==
    /\ Types(events) \in NormalSequences
           \cup { <<"user_send_message", "error">>,
                  <<"user_send_message", "marketing_response", "error">> }
    /\ Types(events) = <<"user_send_message", "marketing_response", "error">>
           => HasResult /\ RaisesComputingSummary(TheResult)
    /\ (HasResult /\ RaisesComputingSummary(TheResult) /\ mpc \in {"failed", "done"})
           => Types(events) = <<"user_send_message", "marketing_response", "error">>
    /\ ~({"marketing_summary", "error"} \subseteq Range(Types(events)))

\* The error event came after the marketing_response.
C16_Witness ==
    /\ Types(events) = <<"user_send_message", "marketing_response", "error">>
    /\ mpc = "failed"

\* ---- C17 ----------------------------------------------------------------
\* The source of the events was set up and has raised nothing so far.
UpstreamDoesNotRaise ==
    /\ mediator.made \/ agent.made
    /\ pc \in {"loop", "done"}
    /\ \A k \in 1..Len(passes) : passes[k].up.t # "raise"

\* Pass p gave an event that is None or that the filter rejected.
Skipped(p) == p.up.t = "item" /\ (IsNone(p.up.v) \/ p.asked = <<Ok(FALSE)>>)

\* In pass p the filter raised, or json.dumps raised for an accepted event.
RaisedInPass(p) ==
    /\ p.up.t = "item"
    /\ ~IsNone(p.up.v)
    /\ \/ p.asked # <<>> /\ ~p.asked[1].ok
       \/ p.asked = <<Ok(TRUE)>> /\ ~JsonDumps(p.up.v).ok

\* C17 as stated: for an upstream that does not raise, the frames are the
\* conversation_started frame followed by one frame per event that is not
\* None and that the filter accepts, in order and once each; an event that
\* is None or rejected gives no frame and the loop goes on after it.
C17_OneFramePerAcceptedEvent ==
    UpstreamDoesNotRaise =>
        /\ Len(frames) >= 1
        /\ IsStartFrame(frames[1])
        /\ Tail(frames) = RenderedFrames(passes)
        /\ \A k \in 1..Len(passes) :
              Skipped(passes[k]) => (k < Len(passes) \/ pc = "loop")

\* C17 amended: the same, as long as neither the filter nor json.dumps
\* raises for an event; when one of them raises in pass k, the frames are
\* the conversation_started frame, the frames of the accepted events of
\* the passes before k and one error frame, and that pass is the last.
C17_OneFramePerAcceptedEventUnlessRaise ==
    UpstreamDoesNotRaise =>
        /\ Len(frames) >= 1
        /\ IsStartFrame(frames[1])
        /\ \A k \in 1..Len(passes) :
              Skipped(passes[k]) => (k < Len(passes) \/ pc = "loop")
        /\ (\A k \in 1..Len(passes) : ~RaisedInPass(passes[k]))
              => Tail(frames) = RenderedFrames(passes)
        /\ \A k \in 1..Len(passes) :
              RaisedInPass(passes[k]) =>
                  /\ k = Len(passes)
                  /\ pc = "done"
                  /\ SubSeq(frames, 2, Len(frames) - 1) = RenderedFrames(SubSeq(passes, 1, k - 1))
                  /\ FrameObject(frames[Len(frames)]).data.event_type = "error"

\* The agent gave None, then an event the filter accepted; the loop goes on.
C17_Witness ==
    /\ UpstreamDoesNotRaise
    /\ pc = "loop"
    /\ Len(passes) = 2
    /\ IsNone(passes[1].up.v)
    /\ passes[2].asked = <<Ok(TRUE)>>
    /\ Len(frames) = 2

\* ---- C18 ----------------------------------------------------------------
\* The calls of query, get_filters and get_summary in the log.
AdapterCalls == {i \in 1..Len(calls) : calls[i].op # "_wrap_event"}

\* C18: on an adapter constructed in local mode, close changes nothing of
\* the adapter and returns without raising, each time it is called; what
\* query, get_filters and get_summary return depends on the call and on
\* what the service does, not on the closes made before the call, and none
\* of them raises.
C18_CloseIsNoOpInLocalMode ==
    (unit.made /\ unit.adapter.mode = "local") =>
        /\ unit.adapter = [mode |-> "local", http_client |-> "absent"]
        /\ \A k \in 1..Len(unit.closed) : unit.closed[k] = Ok(NoneVal)
        /\ \A i \in AdapterCalls : calls[i].result.ok
        /\ \A i \in AdapterCalls : \A j \in AdapterCalls :
              ( /\ calls[i].op = calls[j].op
                /\ calls[i].arg = calls[j].arg
                /\ calls[i].backend = calls[j].backend )
              => calls[i].result = calls[j].result

\* The same query succeeded before the first close and after the second.
C18_Witness ==
    /\ unit.made
    /\ unit.adapter.mode = "local"
    /\ Len(unit.closed) = 2
    /\ Len(calls) = 2
    /\ calls[1].op = "query" /\ calls[1].closes = 0
    /\ calls[2].op = "query" /\ calls[2].closes = 2
    /\ calls[1].arg = calls[2].arg
    /\ calls[1].backend = calls[2].backend
    /\ calls[2].result.value.success

\* ---- C19 ----------------------------------------------------------------
\* The calls of _wrap_event in the log.
WrapCalls == {i \in 1..Len(calls) : calls[i].op = "_wrap_event"}

\* The tool_name of the event is the one it was given, or none was given
\* and it has one equal to the type exactly when the type is neither
\* user_send_message nor error.
ToolNameRule(data, event, default) ==
    /\ "tool_name" \in DOMAIN data => event.data.tool_name = data.tool_name
    /\ "tool_name" \notin DOMAIN data =>
          /\ "tool_name" \in DOMAIN event.data
                <=> Get(data, "type", NoneVal) \notin {"user_send_message", "error"}
          /\ "tool_name" \in DOMAIN event.data => event.data.tool_name = default

HttpCallFailed(reply) ==
    \/ ~reply.connected
    \/ reply.status_code \notin 200..299
    \/ reply.body.t = "invalid"

\* The reply carries an object with a filters mapping.
HasFiltersMapping(reply) ==
    /\ ~HttpCallFailed(reply)
    /\ reply.body.t = "dict"
    /\ "filters" \in DOMAIN reply.body.v
    /\ reply.body.v.filters.t = "dict"

\* C20: get_filters in local mode returns the five preset labels, the
\* strings query takes for preset filters; in HTTP mode it returns the
\* keys of the reply's filters mapping, in order, and the empty list when
\* the HTTP call fails; get_summary returns the empty mapping when the
\* service or the HTTP call fails; neither raises.
C20_FiltersAndSummaryNeverRaise ==
    \A i \in AdapterCalls :
        LET call == calls[i]
            mode == unit.adapter.mode
        IN  /\ (call.op = "get_filters" /\ mode = "local") =>
                  /\ call.result.ok
                  /\ Len(call.result.value) = 5
                  /\ Range(call.result.value) = preset_filters
                  /\ \A k \in 1..5 : _is_preset_filter(call.result.value[k])
            /\ (call.op = "get_filters" /\ mode = "http") =>
                  /\ call.result.ok
                  /\ HttpCallFailed(call.backend) => call.result.value = <<>>
                  /\ HasFiltersMapping(call.backend) =>
                        call.result.value = Keys(call.backend.body.v.filters)
            /\ (call.op = "get_summary" /\ mode = "local") =>
                  /\ call.result.ok
                  /\ ~call.backend.ok => call.result.value = JDict(<<>>)
            /\ (call.op = "get_summary" /\ mode = "http") =>
                  /\ call.result.ok
                  /\ HttpCallFailed(call.backend) => call.result.value = JDict(<<>>)

\* In HTTP mode get_filters gave the keys of a mapping, then the empty
\* list for an error status.
C20_Witness ==
    /\ unit.made
    /\ unit.adapter.mode = "http"
    /\ Len(calls) = 2
    /\ calls[1].op = "get_filters"
    /\ calls[1].result = Ok(<<"VIP customers only", "Loyal customers">>)
    /\ calls[2].op = "get_filters"
    /\ calls[2].backend.status_code = 500
    /\ calls[2].result = Ok(<<>>)

\* ---- C22 ----------------------------------------------------------------
\* C22: the first event of mediator.stream is the user_send_message event
\* with the query as its text; the adapter gets no request before that
\* event was yielded and the consumer came back for the next one; it gets
\* at most one request per stream; a stream whose backend call failed
\* still starts with the echo.
C22_EchoBeforeTheOneQuery ==
    /\ Len(events) >= 1 =>
          /\ events[1].data.type = "user_send_message"
          /\ events[1].data.input_params = [text |-> query, attachments |-> <<>>]
    /\ \A i \in 2..Len(events) : events[i].data.type # "user_send_message"
    /\ Len(requests) <= 1
    /\ Len(results) <= Len(requests)
    /\ mpc \in {"unborn", "start", "echoed"} => requests = <<>>
    /\ requests # <<>> => Len(events) >= 1
    /\ results # <<>> => Len(events) >= 2

\* The backend call failed and the stream holds the echo and the error.
C22_Witness ==
    /\ Len(requests) = 1
    /\ HasResult
    /\ ~Get(TheResult, "success", FALSE)
    /\ Types(events) = <<"user_send_message", "error">>
    /\ events[1].data.input_params.text = query

\* ---- C23 ----------------------------------------------------------------
\* The conversation id of the conversation_started frame.
StartedConversationId == FrameObject(frames[1]).data.payload.conversation_id

\* C23: the conversation_started frame carries the caller's conversation
\* id when it is a non-empty string and a generated identifier when it is
\* None or empty; in mediator mode it is the id the mediator holds, in
\* agent mode the one get_or_create_agent returned with the agent.
C23_StartFrameCarriesResolvedId ==
    (Len(frames) >= 1 /\ IsStartFrame(frames[1])) =>
        /\ conversation_id \notin {NoneVal, ""} => StartedConversationId = conversation_id
        /\ conversation_id \in {NoneVal, ""} =>
              /\ StartedConversationId = uuid4(1)
              /\ StartedConversationId \notin ConversationIds
        /\ StartedConversationId = actual_conversation_id
        /\ mediator.made => StartedConversationId = mediator.conversation_id
        /\ agent.made => StartedConversationId = agent.conversation_id

\* The caller gave an empty id and the mediator streams under a new one.
C23_Witness ==
    /\ conversation_id = ""
    /\ mediator.made
    /\ Len(frames) >= 2
    /\ IsStartFrame(frames[1])
    /\ StartedConversationId = "uuid-1"

\* ---- C24 ----------------------------------------------------------------
\* The result is successful with a positive count and no customer: its
\* customers field is the empty list, or absent.
PositiveCountNoCustomers(r) ==
    /\ Get(r, "success", FALSE)
    /\ Get(r, "count", 0) > 0
    /\ Get(r, "customers", JList(<<>>)) = JList(<<>>)

\* C24: for such a result mediator.stream yields no error event, and once
\* it is past the marketing_response it has yielded a marketing_summary
\* with total_customers = count, total_lifetime_value = 0 and
\* average_lifetime_value = 0, which is not a quotient by zero.
C24_SummaryOfNoCustomersIsZero ==
    (HasResult /\ PositiveCountNoCustomers(TheResult)) =>
        /\ "error" \notin Range(Types(events))
        /\ mpc \in {"responded", "summarized", "done"}
        /\ mpc \in {"summarized", "done"} =>
              /\ Types(events) = <<"user_send_message", "marketing_response", "marketing_summary">>
              /\ events[3].data.payload.total_customers = Get(TheResult, "count", 0)
              /\ events[3].data.payload.total_lifetime_value = 0
              /\ events[3].data.payload.average_lifetime_value.den # 0
              /\ events[3].data.payload.average_lifetime_value.num = 0

\* The reply had count 2 and no customers field; the summary was yielded.
C24_Witness ==
    /\ HasResult
    /\ PositiveCountNoCustomers(TheResult)
    /\ "customers" \notin DOMAIN TheResult
    /\ Get(TheResult, "count", 0) = 2
    /\ mpc = "done"
    /\ Len(events) = 3

\* ---- C21 ----------------------------------------------------------------
\* What mediator.stream gives a request that runs alone, for its query and
\* for what the backend did (bks: nothing yet, or the one outcome).
SoloUps(q, mode, bks) ==
    LET echo == Item(_wrap_event(EchoData(q), 0, 0)) IN
    IF bks = <<>> THEN <<echo>>
    ELSE LET qres == AdapterQuery(mode, q, bks[1])
             second == AfterQuery(q, qres, 0, 0)
         IN  IF second.mpc # "responded" THEN <<echo, second.up, Stop>>
             ELSE LET third == AfterResponse(q, qres.value, 0, 0) IN
                  IF third.up.t = "item" THEN <<echo, second.up, third.up, Stop>>
                  ELSE <<echo, second.up, third.up>>

\* The frames event_stream emits alone for these upstream items and the
\* filter's answers in the passes ps.
RECURSIVE SoloEmitted(_, _, _)
SoloEmitted(ups, ps, k) ==
    IF k > Len(ps) THEN <<>>
    ELSE LoopPass(ups[k], IF ps[k].asked = <<>> THEN Ok(TRUE) ELSE ps[k].asked[1]).emit
         \o SoloEmitted(ups, ps, k + 1)

\* An object without what is generated anew in every run: the timestamps,
\* the event id, a generated conversation id.
Erased(obj) ==
    IF "event_type" \in DOMAIN obj
    THEN [ event_type |-> obj.event_type,
           data |-> [k \in DOMAIN obj.data \ {"id", "timestamp"} |-> obj.data[k]] ]
    ELSE IF "type" \in DOMAIN obj.data /\ obj.data.type = "conversation_started"
    THEN [ type |-> obj.data.type,
           conversation_id |-> IF obj.data.payload.conversation_id \in ConversationIds
                               THEN obj.data.payload.conversation_id
                               ELSE "<generated>" ]
    ELSE obj

ErasedFrames(fs) == [i \in 1..Len(fs) |-> Erased(FrameObject(fs[i]))]

\* Request i, in the state r, has the frames it has when it runs alone
\* with the same backend outcome and the same answers of the filter, and
\* it is done exactly when the run alone is.
AsAlone(r, i) ==
    LET ups == SoloUps(TwoQueries[i], environ.MARKETING_MODE, r.backends)
        start == Frame(JsonDumps(ConversationEvent(OrUuid(r.conversation_id, 0))).value)
    IN  /\ r.query = TwoQueries[i]
        /\ r.pc = "start" => r.frames = <<>>
        /\ r.pc # "start" =>
              /\ r.mediator.made
              /\ Len(r.passes) <= Len(ups)
              /\ ErasedFrames(r.frames)
                    = ErasedFrames(<<start>> \o SoloEmitted(ups, r.passes, 1))
              /\ r.pc = "done" <=>
                    (Len(r.passes) = Len(ups) /\ ups[Len(ups)].t = "stop")

====
